---- MODULE Spec2Model ----
(***************************************************************************)
(* Model of create_mock_documents.py: a script that creates the directory  *)
(* documents/ and then renders three fixed PDF documents into it, one      *)
(* after another, under a single try/except in the __main__ block.         *)
(*                                                                         *)
(* The state is the part of the file system the script touches (the path   *)
(* documents and the entries below it), the environment the script runs    *)
(* in (is the rendering library importable, its allowShortTableRows        *)
(* setting, permissions, an injected rendering or disk fault), the         *)
(* position of the interpreter in the script, the pending exception and    *)
(* what has been printed.  File-system semantics are those of POSIX        *)
(* open(path, "wb") and os.makedirs(path, exist_ok=True).                  *)
(***************************************************************************)
EXTENDS Integers, Sequences, FiniteSets, TLC

VARIABLES
    pc,          \* position of the interpreter in the script
    cur,         \* index (1..3) of the builder being executed, 0 before any
    exc,         \* the exception raised in this run, "none" if none
    out,         \* lines printed on stdout in this run
    dirState,    \* what the path documents is: "absent", "dir" or "file"
    files,       \* contents of the entries of documents/
    env,         \* the environment of the process, fixed over a behaviour
    run,         \* number of the current invocation of the script
    start,       \* the file system as it was when this run started
    started,     \* builders called in this run, in call order
    mkdirs,      \* os.makedirs calls completed in this run
    caught,      \* times the except clause was entered in this run
    tableArg     \* the last (data, colWidths) handed to Table(...) in this run

vars == <<pc, cur, exc, out, dirState, files, env, run, start, started,
          mkdirs, caught, tableArg>>

\* Number of consecutive invocations of the script that are explored.
MaxRuns == 2

-----------------------------------------------------------------------------
\* Literals of the script

inch == 72

LifePath == "documents/Life_Insurance_Policy.pdf"
WillPath == "documents/Last_Will_and_Testament.pdf"
IdPath == "documents/State_ID_Card.pdf"
\* Stands for every entry of documents/ other than the three above.
OtherPath == "documents/<other>"

Paths == {LifePath, WillPath, IdPath, OtherPath}

\* The builders in the order __main__ calls them.
Builders == <<"create_life_insurance_policy", "create_will_and_testament",
              "create_state_id">>

NBuilders == Len(Builders)

\* filename with the state ID builder writing under another name.
filenameStateIdRenamed(k) ==
    CASE k = 1 -> "documents/Life_Insurance_Policy.pdf"
      [] k = 2 -> "documents/Last_Will_and_Testament.pdf"
      [] k = 3 -> "documents/<other>"

\* filename with the will builder keeping the policy builder's file name.
filenameCopied(k) ==
    CASE k = 1 -> "documents/Life_Insurance_Policy.pdf"
      [] k = 2 -> "documents/Life_Insurance_Policy.pdf"
      [] k = 3 -> "documents/State_ID_Card.pdf"

\* The local variable filename of builder k.
filename(k) ==
    CASE k = 1 -> "documents/Life_Insurance_Policy.pdf"
      [] k = 2 -> "documents/Last_Will_and_Testament.pdf"
      [] k = 3 -> "documents/State_ID_Card.pdf"

policy_data == <<
    <<"<b>Policy Holder:</b>", "John Robert Smith">>,
    <<"<b>Policy Number:</b>", "LH-99887766">>,
    <<"<b>Benefit Amount:</b>", "$500,000.00">>,
    <<"<b>Primary Beneficiary:</b>", "Sarah Smith-Jones">>,
    <<"<b>Policy Date:</b>", "<datetime.now() as %B %d, %Y>">>,
    <<"<b>Policy Type:</b>", "Whole Life Insurance">>,
    <<"<b>Monthly Premium:</b>", "$275.00">>,
    <<"<b>Cash Value:</b>", "$45,230.50">> >>

policy_colWidths == <<2 * inch, 3 * inch>>

id_data == <<
    <<"<b>CLASS:</b>", "C", "<b>RESTRICTIONS:</b>", "None">>,
    <<"<b>SEX:</b>", "Male", "<b>HEIGHT:</b>", "5'10\"">>,
    <<"<b>EYES:</b>", "Blue", "<b>WEIGHT:</b>", "185 lbs">>,
    <<"<b>HAIR:</b>", "Brown", "<b>ORGAN DONOR:</b>", "YES">>,
    <<"<b>NAME:</b>", "John R. Smith", "">>,
    <<"<b>DOB:</b>", "05/12/1955", "">>,
    <<"<b>ADDRESS:</b>", "123 Compassion Way", "">>,
    <<"", "Anytown, ST 12345", "">>,
    <<"<b>ISSUE DATE:</b>", "01/10/2020", "<b>EXPIRES:</b>", "01/10/2025">> >>

id_colWidths == <<(3 * inch) \div 2, (3 * inch) \div 2, (3 * inch) \div 2,
                  (3 * inch) \div 2>>

NoTable == [data |-> <<>>, colWidths |-> <<>>]

\* The arguments of the Table(...) call of builder k; the will has no table.
TableOf(k) ==
    CASE k = 1 -> [data |-> policy_data, colWidths |-> policy_colWidths]
      [] k = 2 -> NoTable
      [] k = 3 -> [data |-> id_data, colWidths |-> id_colWidths]

-----------------------------------------------------------------------------
\* The layout library's Table constructor

RECURSIVE MaxRowLen(_)
MaxRowLen(data) ==
    IF data = <<>> THEN 0
    ELSE LET m == MaxRowLen(Tail(data))
         IN  IF Len(Head(data)) > m THEN Len(Head(data)) ELSE m

\* Table(data, colWidths): the column count is that of the longest row; a
\* colWidths list or a row of another length is adjusted when the library
\* setting allowShortTableRows is on and is a ValueError otherwise.
Table(data, colWidths, allowShortTableRows) ==
    LET ncols == MaxRowLen(data)
    IN  IF data = <<>> THEN "ok"
        ELSE IF Len(colWidths) # ncols /\ ~allowShortTableRows
             THEN "ValueError"
        ELSE IF (\E i \in 1..Len(data) : Len(data[i]) # ncols)
                /\ ~allowShortTableRows
             THEN "ValueError"
        ELSE "ok"

-----------------------------------------------------------------------------
\* File contents: st is "absent", "partial" (opened and truncated, not or not
\* completely written) or "complete"; by is the run that wrote it, 0 when it
\* was there before the first run.

Absent == [st |-> "absent", by |-> 0]
Partial(r) == [st |-> "partial", by |-> r]
Complete(r) == [st |-> "complete", by |-> r]

Kinds == 1..NBuilders

Stages == {"layout", "write"}

NoFault == [k |-> 0, stage |-> "none"]

Faults == {NoFault} \cup [k : Kinds, stage : Stages]

Line(m, a) == [msg |-> m, arg |-> a]

Printed(m) == \E i \in 1..Len(out) : out[i].msg = m

\* open(path, "wb"): an absent file is created when the directory allows it,
\* an existing file is truncated when the file itself allows writing.
CanOpen(p) ==
    /\ dirState = "dir"
    /\ IF files[p].st = "absent" THEN env.dirWritable
       ELSE files[p].by > 0 \/ env.filesWritable

OpenError(p) ==
    IF dirState # "dir" THEN "FileNotFoundError" ELSE "PermissionError"

-----------------------------------------------------------------------------
\* Initial states: every environment and every content of documents/ the
\* first run can find.

Envs ==
    [installed : BOOLEAN, allowShortTableRows : BOOLEAN,
     parentWritable : BOOLEAN, dirWritable : BOOLEAN,
     filesWritable : BOOLEAN, fault : Faults]

Init ==
    /\ pc = "import"
    /\ cur = 0
    /\ exc = "none"
    /\ out = <<>>
    /\ dirState \in {"absent", "dir", "file"}
    /\ files \in [Paths -> {Absent, Complete(0)}]
    /\ dirState # "dir" => files = [p \in Paths |-> Absent]
    /\ env \in Envs
    /\ dirState # "dir" => env.dirWritable /\ env.filesWritable
    /\ dirState # "absent" => env.parentWritable
    /\ (\A p \in Paths : files[p] = Absent) => env.filesWritable
    /\ run = 1
    /\ start = [dir |-> dirState, files |-> files]
    /\ started = <<>>
    /\ mkdirs = 0
    /\ caught = 0
    /\ tableArg = NoTable

-----------------------------------------------------------------------------
\* Steps of the script

\* An exception outside the try block: the interpreter prints a traceback
\* and exits.
Uncaught(e) ==
    /\ pc' = "crashed"
    /\ exc' = e

\* Raise with the exception swallowed inside the builder, so that the try
\* block goes on with its next statement.
RaiseSwallowed(e) ==
    /\ pc' = "created"
    /\ exc' = e

\* An exception inside the try block: control passes to the except clause.
Raise(e) ==
    /\ pc' = "except"
    /\ exc' = e

\* The import statements at the top of the module.
Import ==
    /\ pc = "import"
    /\ IF env.installed
       THEN pc' = "makedirs" /\ exc' = exc
       ELSE Uncaught("ModuleNotFoundError")
    /\ UNCHANGED <<cur, out, dirState, files, env, run, start, started,
                   mkdirs, caught, tableArg>>

\* Makedirs creating some other path: documents itself is left as it is.
MakedirsElsewhere ==
    /\ pc = "makedirs"
    /\ pc' = "main"
    /\ mkdirs' = mkdirs + 1
    /\ UNCHANGED <<cur, exc, out, dirState, files, env, run, start, started,
                   caught, tableArg>>

\* os.makedirs('documents', exist_ok=True), at module level.
Makedirs ==
    /\ pc = "makedirs"
    /\ IF dirState = "dir"
       THEN /\ pc' = "main" /\ exc' = exc
            /\ mkdirs' = mkdirs + 1
            /\ dirState' = dirState
       ELSE IF dirState = "file"
       THEN /\ Uncaught("FileExistsError")
            /\ UNCHANGED <<mkdirs, dirState>>
       ELSE IF env.parentWritable
       THEN /\ pc' = "main" /\ exc' = exc
            /\ mkdirs' = mkdirs + 1
            /\ dirState' = "dir"
       ELSE /\ Uncaught("PermissionError")
            /\ UNCHANGED <<mkdirs, dirState>>
    /\ UNCHANGED <<cur, out, files, env, run, start, started, caught,
                   tableArg>>

\* if __name__ == "__main__": the banner, then the first call inside try.
Main ==
    /\ pc = "main"
    /\ out' = Append(out, Line("Creating mock documents", ""))
    /\ pc' = "call"
    /\ cur' = 1
    /\ UNCHANGED <<exc, dirState, files, env, run, start, started, mkdirs,
                   caught, tableArg>>

\* Builder cur is called: SimpleDocTemplate(filename), the styles and the
\* story, including the Table(...) of the builders that have one.
Construct ==
    /\ pc = "call"
    /\ started' = Append(started, cur)
    /\ LET t == TableOf(cur)
           r == Table(t.data, t.colWidths, env.allowShortTableRows)
       IN  /\ tableArg' = IF t = NoTable THEN tableArg ELSE t
           /\ IF r = "ok"
              THEN pc' = "layout" /\ exc' = exc
              ELSE Raise(r)
    /\ UNCHANGED <<cur, out, dirState, files, env, run, start, mkdirs,
                   caught>>

\* doc.build(story), first part: the flowables are laid out on pages.
Layout ==
    /\ pc = "layout"
    /\ IF env.fault = [k |-> cur, stage |-> "layout"]
       THEN Raise("LayoutError")
       ELSE pc' = "open" /\ exc' = exc
    /\ UNCHANGED <<cur, out, dirState, files, env, run, start, started,
                   mkdirs, caught, tableArg>>

\* Open with exclusive creation: an existing output file is an error.
OpenExclusive ==
    /\ pc = "open"
    /\ IF CanOpen(filename(cur)) /\ files[filename(cur)].st = "absent"
       THEN /\ files' = [files EXCEPT ![filename(cur)] = Partial(run)]
            /\ pc' = "write" /\ exc' = exc
       ELSE /\ Raise(IF dirState = "dir" /\ files[filename(cur)].st # "absent"
                     THEN "FileExistsError" ELSE OpenError(filename(cur)))
            /\ files' = files
    /\ UNCHANGED <<cur, out, dirState, env, run, start, started, mkdirs,
                   caught, tableArg>>

\* doc.build(story), second part: the canvas is saved, which opens the
\* output file for writing and thereby creates or truncates it.
Open ==
    /\ pc = "open"
    /\ IF CanOpen(filename(cur))
       THEN /\ files' = [files EXCEPT ![filename(cur)] = Partial(run)]
            /\ pc' = "write" /\ exc' = exc
       ELSE /\ Raise(OpenError(filename(cur)))
            /\ files' = files
    /\ UNCHANGED <<cur, out, dirState, env, run, start, started, mkdirs,
                   caught, tableArg>>

\* doc.build(story), third part: the document is written and closed.
Write ==
    /\ pc = "write"
    /\ IF env.fault = [k |-> cur, stage |-> "write"]
       THEN /\ Raise("OSError")
            /\ files' = files
       ELSE /\ files' = [files EXCEPT ![filename(cur)] = Complete(run)]
            /\ pc' = "created" /\ exc' = exc
    /\ UNCHANGED <<cur, out, dirState, env, run, start, started, mkdirs,
                   caught, tableArg>>

\* print(f"Created: {filename}"), the return of the builder, and the next
\* statement of the try block.
Created ==
    /\ pc = "created"
    /\ out' = Append(out, Line("Created", filename(cur)))
    /\ IF cur < NBuilders
       THEN pc' = "call" /\ cur' = cur + 1
       ELSE pc' = "success" /\ cur' = cur
    /\ UNCHANGED <<exc, dirState, files, env, run, start, started, mkdirs,
                   caught, tableArg>>

\* print("\nDocuments created successfully!") and print("Documents directory:")
Success ==
    /\ pc = "success"
    /\ out' = Append(out, Line("Documents created successfully!", ""))
    /\ pc' = "ls"
    /\ UNCHANGED <<cur, exc, dirState, files, env, run, start, started,
                   mkdirs, caught, tableArg>>

\* os.system('ls -la documents/'): lists the directory, changes nothing.
Ls ==
    /\ pc = "ls"
    /\ out' = Append(out, Line("ls -la documents/", ""))
    /\ pc' = "done"
    /\ UNCHANGED <<cur, exc, dirState, files, env, run, start, started,
                   mkdirs, caught, tableArg>>

\* Except that prints nothing.
ExceptSilent ==
    /\ pc = "except"
    /\ caught' = caught + 1
    /\ pc' = "done"
    /\ UNCHANGED <<cur, exc, out, dirState, files, env, run, start, started,
                   mkdirs, tableArg>>

\* Except that also removes what this run has written.
ExceptCleanup ==
    /\ pc = "except"
    /\ caught' = caught + 1
    /\ out' = Append(Append(out, Line("Error creating documents", exc)),
                     Line("Please ensure ReportLab is installed", ""))
    /\ files' = [p \in Paths |-> IF files[p].by = run THEN Absent ELSE files[p]]
    /\ pc' = "done"
    /\ UNCHANGED <<cur, exc, dirState, env, run, start, started, mkdirs,
                   tableArg>>

\* except Exception as e: the two prints, then the script ends.
Except ==
    /\ pc = "except"
    /\ caught' = caught + 1
    /\ out' = Append(Append(out, Line("Error creating documents", exc)),
                     Line("Please ensure ReportLab is installed", ""))
    /\ pc' = "done"
    /\ UNCHANGED <<cur, exc, dirState, files, env, run, start, started,
                   mkdirs, tableArg>>

\* The script is invoked again after the previous invocation has ended.
Rerun ==
    /\ pc \in {"done", "crashed"}
    /\ run < MaxRuns
    /\ run' = run + 1
    /\ pc' = "import"
    /\ cur' = 0
    /\ exc' = "none"
    /\ out' = <<>>
    /\ start' = [dir |-> dirState, files |-> files]
    /\ started' = <<>>
    /\ mkdirs' = 0
    /\ caught' = 0
    /\ tableArg' = NoTable
    /\ UNCHANGED <<dirState, files, env>>

Next ==
    \/ Import
    \/ Makedirs
    \/ Main
    \/ Construct
    \/ Layout
    \/ Open
    \/ Write
    \/ Created
    \/ Success
    \/ Ls
    \/ Except
    \/ Rerun

Spec == Init /\ [][Next]_vars

-----------------------------------------------------------------------------
\* Vocabulary of the properties

\* The fixed path of the document of kind k.
ExpectedPath(k) == <<LifePath, WillPath, IdPath>>[k]

Terminated == pc \in {"done", "crashed"}

BuilderPcs == {"call", "layout", "open", "write", "created"}

ErrorMsg == "Error creating documents"
HintMsg == "Please ensure ReportLab is installed"
SuccessMsg == "Documents created successfully!"

CreatedLines == {i \in 1..Len(out) : out[i].msg = "Created"}

IsPrefix(s, t) == Len(s) <= Len(t) /\ \A i \in 1..Len(s) : s[i] = t[i]

Occurrences(s, x) == Cardinality({i \in 1..Len(s) : s[i] = x})

Existing(f) == {p \in Paths : f[p].st # "absent"}

\* The run started with documents/ present and empty.
StartedEmpty == start.dir = "dir" /\ \A p \in Paths : start.files[p] = Absent

\* The run started with the three documents in place.
StartedFull ==
    start.dir = "dir" /\ \A k \in Kinds : start.files[ExpectedPath(k)].st = "complete"

\* Nothing is wrong with the environment of this run: the library is
\* installed and has its default setting, nothing fails while rendering or
\* writing, documents is no regular file, and the process may create and
\* write what it needs to.
Nominal ==
    /\ env.installed
    /\ env.allowShortTableRows
    /\ env.fault = NoFault
    /\ start.dir # "file"
    /\ start.dir = "absent" => env.parentWritable
    /\ start.dir = "dir" => env.dirWritable /\ env.filesWritable

-----------------------------------------------------------------------------
\* C1: in a sound environment a run started with an empty documents/ runs
\* through all three builders, never raises, and ends with exactly the three
\* documents, each complete, written by this run and at its fixed path, and
\* with no other entry in the directory.
C1_EmptyDirYieldsThreeFiles ==
    (Nominal /\ StartedEmpty) =>
        /\ pc \notin {"crashed", "except"}
        /\ exc = "none"
        /\ Existing(files) \subseteq {LifePath, WillPath, IdPath}
        /\ Terminated =>
              /\ started = <<1, 2, 3>>
              /\ \A k \in Kinds : files[ExpectedPath(k)] = Complete(run)
              /\ Existing(files) = {LifePath, WillPath, IdPath}

C1_Witness ==
    /\ Nominal /\ StartedEmpty
    /\ pc = "done"
    /\ \A k \in Kinds : files[ExpectedPath(k)] = Complete(run)
    /\ files[OtherPath] = Absent

\* C2: every exception raised in a run, that of creating the output
\* directory included, is caught once by the except clause, which prints the
\* error and the hint; none ends the process uncaught.  (Stated for the runs
\* whose imports succeed; a failing import ends the process uncaught too.)
C2_EveryExceptionCaught ==
    (env.installed /\ Terminated /\ exc # "none") =>
        /\ pc = "done"
        /\ caught = 1
        /\ Printed(ErrorMsg)
        /\ Printed(HintMsg)

\* C3: the builders are started in the order policy, will, state ID, and
\* once an exception has been raised no further builder is started and no
\* file is written in that run.
C3_SequentialAbortOnFailure ==
    /\ [](IsPrefix(started, <<1, 2, 3>>))
    /\ [][(exc # "none" /\ run' = run) =>
              (started' = started /\ files' = files)]_vars

C3_Witness ==
    /\ pc = "done"
    /\ exc = "LayoutError"
    /\ cur = 1
    /\ started = <<1>>
    /\ files[WillPath].by # run /\ files[IdPath].by # run

\* C4: os.makedirs runs at most once per run and before any builder, so
\* documents is a directory whenever a builder is running, in particular
\* when it opens its file; a run that finds documents absent in an otherwise
\* sound environment succeeds.
C4_DirectoryCreatedOnceBeforeBuilds ==
    /\ mkdirs <= 1
    /\ (pc \in BuilderPcs \/ started # <<>>) => (mkdirs = 1 /\ dirState = "dir")
    /\ (Nominal /\ start.dir = "absent" /\ Terminated) =>
           (pc = "done" /\ Printed(SuccessMsg) /\ dirState = "dir")

C4_Witness ==
    /\ start.dir = "absent"
    /\ pc = "open"
    /\ dirState = "dir"
    /\ mkdirs = 1

\* C5: in a sound environment a run that finds the three documents in place
\* ends without error, has overwritten each of them, and leaves the set of
\* paths in documents/ as it found it.
C5_RerunOverwritesInPlace ==
    (Nominal /\ StartedFull /\ Terminated) =>
        /\ pc = "done"
        /\ exc = "none"
        /\ Printed(SuccessMsg)
        /\ Existing(files) = Existing(start.files)
        /\ \A k \in Kinds : files[ExpectedPath(k)] = Complete(run)

C5_Witness ==
    /\ run = 2
    /\ Nominal /\ StartedFull
    /\ pc = "done"
    /\ \A k \in Kinds : start.files[ExpectedPath(k)] = Complete(1)
    /\ \A k \in Kinds : files[ExpectedPath(k)] = Complete(2)

\* C6 as stated: when documents/ is not writable (and nothing else is wrong)
\* the run ends with the error message printed and without a partial file.
C6_UnwritableDirAlwaysErrors ==
    (/\ pc = "done"
     /\ start.dir = "dir" /\ ~env.dirWritable
     /\ env.allowShortTableRows /\ env.fault = NoFault) =>
        /\ Printed(ErrorMsg)
        /\ \A k \in Kinds : files[ExpectedPath(k)].st # "partial"

\* C6 amended: when documents/ is not writable and one of the three files
\* is missing, the run ends with the error message and the hint printed and
\* no success message; and a build that fails because its file cannot be
\* opened leaves that path as the run found it, absent or complete.
C6_FailedOpenLeavesNoPartialFile ==
    /\ (/\ pc = "done"
        /\ start.dir = "dir" /\ ~env.dirWritable
        /\ \E k \in Kinds : start.files[ExpectedPath(k)] = Absent) =>
           (Printed(ErrorMsg) /\ Printed(HintMsg) /\ ~Printed(SuccessMsg))
    /\ (exc = "PermissionError" /\ cur >= 1) =>
           /\ files[ExpectedPath(cur)] = start.files[ExpectedPath(cur)]
           /\ files[ExpectedPath(cur)].st \in {"absent", "complete"}

C6_Witness ==
    /\ pc = "done"
    /\ ~env.dirWritable
    /\ exc = "PermissionError"
    /\ cur = 2
    /\ files[LifePath] = Complete(run)
    /\ files[WillPath] = Absent
    /\ Printed(ErrorMsg)

\* C7: a step of the builder of kind k changes no entry of documents/ other
\* than the file named after k, and not the directory itself.
C7_BuildersTouchOnlyOwnFile ==
    [][(pc \in BuilderPcs) =>
          ((\A p \in Paths \ {ExpectedPath(cur)} : files'[p] = files[p])
           /\ dirState' = dirState)]_vars

C7_Witness ==
    /\ pc = "created"
    /\ cur = 2
    /\ start.files[WillPath] = Complete(0)
    /\ files[WillPath] = Complete(run)
    /\ files[LifePath] = Complete(run)
    /\ files[IdPath] = Complete(0)

\* C8: no builder is started twice in a run, and when a run has ended with
\* an exception raised in builder k the files of the builders before k are
\* the complete documents those builders wrote in this run.
C8_NoRetryNoCleanup ==
    /\ \A k \in Kinds : Occurrences(started, k) <= 1
    /\ (Terminated /\ exc # "none" /\ cur >= 1) =>
           \A j \in 1..(cur - 1) : files[ExpectedPath(j)] = Complete(run)

C8_Witness ==
    /\ pc = "done"
    /\ exc = "OSError"
    /\ cur = 3
    /\ started = <<1, 2, 3>>
    /\ files[LifePath] = Complete(run)
    /\ files[WillPath] = Complete(run)
    /\ files[IdPath] = Partial(run)

\* C9: a run that has ended has printed exactly one of the success message
\* and the error message: the success message exactly when all three builders
\* printed their Created line, the error message exactly when an exception
\* was raised, and as many Created lines as builders completed.  (Stated for
\* the runs whose imports succeed.)
C9_ExactlyOneFinalReport ==
    (env.installed /\ Terminated) =>
        /\ Printed(SuccessMsg) # Printed(ErrorMsg)
        /\ Printed(SuccessMsg) <=> Cardinality(CreatedLines) = NBuilders
        /\ Printed(ErrorMsg) <=> exc # "none"
        /\ Cardinality(CreatedLines)
              = Cardinality({k \in Kinds : files[ExpectedPath(k)] = Complete(run)})

\* C10: every table handed to Table(...) has in each row as many cells as
\* there are column widths, and no ValueError is ever raised.
C10_TablesRectangular ==
    /\ \A i \in 1..Len(tableArg.data) :
           Len(tableArg.data[i]) = Len(tableArg.colWidths)
    /\ exc # "ValueError"

====
